---- MODULE Spec2Model ----
(***************************************************************************)
(* Table-of-contents normalizer and tree interaction of the reading app    *)
(* (src/components/EnhancedTableOfContents.tsx), its bookmark storage and  *)
(* its text service (src/unnamed/part_001), and its reference navigation   *)
(* (src/services/textNavigation.ts).                                       *)
(*                                                                         *)
(* JavaScript strings are TLA+ strings handled character by character      *)
(* (Head, Tail, SubSeq, Len, \o).  An optional JavaScript value            *)
(* (a property that may be undefined) is None == <<>> or Some(v) == <<v>>. *)
(***************************************************************************)
EXTENDS Integers, Sequences, FiniteSets, TLC

\* ------------------------------------------------------------------ bounds
MaxTopNodes == 2
MaxChildNodes == 1
MaxPresses == 2
MaxPressIndex == 1
MaxToggles == 2
MaxOps == 3
MaxClock == 2
MaxCalls == 1
MaxNavCalls == 2

\* ------------------------------------------------------- program constants
TorahTotal == 286
SimpleTotal == 307

\* --------------------------------------------------------- optional values
None == <<>>
Some(v) == <<v>>

\* JavaScript truthiness of an optional string: undefined and '' are falsy
TruthyStr(o) == o # None /\ o[1] # ""

\* o || d  for an optional string o and a string d
OrStr(o, d) == IF TruthyStr(o) THEN o[1] ELSE d

\* ----------------------------------------------------------------- strings
IsWs(c) == c \in {" ", "\t", "\n"}

IsDigit(c) == c \in {"0", "1", "2", "3", "4", "5", "6", "7", "8", "9"}

Digit(d) == SubSeq("0123456789", d + 1, d + 1)

\* template-literal formatting of a non-negative integer
RECURSIVE IntToStr(_)
IntToStr(n) == IF n < 10 THEN Digit(n) ELSE IntToStr(n \div 10) \o Digit(n % 10)

RECURSIVE DropWs(_)
DropWs(s) == IF s # "" /\ IsWs(Head(s)) THEN DropWs(Tail(s)) ELSE s

\* s.replace(/\s+/g, '_')
RECURSIVE ReplaceWs(_)
ReplaceWs(s) ==
    IF s = "" THEN ""
    ELSE IF IsWs(Head(s)) THEN "_" \o ReplaceWs(DropWs(Tail(s)))
    ELSE Head(s) \o ReplaceWs(Tail(s))

\* s.replace(/\n/g, '')
RECURSIVE RemoveNewlines(_)
RemoveNewlines(s) ==
    IF s = "" THEN ""
    ELSE IF Head(s) = "\n" THEN RemoveNewlines(Tail(s))
    ELSE Head(s) \o RemoveNewlines(Tail(s))

RECURSIVE DropWsEnd(_)
DropWsEnd(s) ==
    IF s # "" /\ IsWs(SubSeq(s, Len(s), Len(s)))
    THEN DropWsEnd(SubSeq(s, 1, Len(s) - 1))
    ELSE s

\* s.trim()
Trim(s) == DropWsEnd(DropWs(s))

\* s.includes(sub)
Includes(s, sub) ==
    \E i \in 1..(Len(s) - Len(sub) + 1) : SubSeq(s, i, i + Len(sub) - 1) = sub

\* array.includes(x)
ArrayIncludes(arr, x) == \E i \in 1..Len(arr) : arr[i] = x

\* variant of Flatten: the last pushes come first
RECURSIVE Flatten_Reversed(_)
Flatten_Reversed(ss) ==
    IF Len(ss) = 0 THEN <<>>
    ELSE IF Len(ss) = 1 THEN ss[1]
    ELSE Flatten_Reversed(SubSeq(ss, Len(ss) \div 2 + 1, Len(ss)))
         \o Flatten_Reversed(SubSeq(ss, 1, Len(ss) \div 2))

\* the concatenation of a sequence of sequences (the order of the pushes)
RECURSIVE Flatten(_)
Flatten(ss) ==
    IF Len(ss) = 0 THEN <<>>
    ELSE IF Len(ss) = 1 THEN ss[1]
    ELSE Flatten(SubSeq(ss, 1, Len(ss) \div 2))
         \o Flatten(SubSeq(ss, Len(ss) \div 2 + 1, Len(ss)))

\* ------------------------------------------------------------ output nodes
\* interface TOCItem; chapterRange is optional
TOCItem(id, title, reference, level, type, isCollapsible, children, chapterRange) ==
    [id |-> id, title |-> title, reference |-> reference, level |-> level,
     type |-> type, isCollapsible |-> isCollapsible, isExpanded |-> FALSE,
     children |-> children, chapterRange |-> chapterRange]

\* result of a call: a returned list, or an exception (TypeError)
Returned(items) == [threw |-> FALSE, items |-> items]
Threw == [threw |-> TRUE, items |-> <<>>]

\* ------------------------------------------------- compound-legal builder
AuthorsIntroduction == "Author's Introduction"
HeAuthorsIntroduction == "הקדמת המחבר"

IsAuthorsIntro(node) ==
    node.title = Some(AuthorsIntroduction) \/ node.heTitle = Some(HeAuthorsIntroduction)

\* the reference of one subsection (template literal of line 301)
SubsectionRef(title, node, subsection) ==
    title \o ",_" \o ReplaceWs(node.title[1]) \o ",_"
          \o ReplaceWs(subsection.title[1]) \o ".1.1"

\* node.title.replace / subsection.title.replace on an undefined title
LHNodeThrows(node) ==
    /\ ~IsAuthorsIntro(node)
    /\ node.nodes # None
    /\ Len(node.nodes[1]) > 0
    /\ \/ node.title = None
       \/ \E j \in 1..Len(node.nodes[1]) : node.nodes[1][j].title = None

\* the items one top-level node pushes (nodeIndex is 0-based)
LHNodeItems(title, node, nodeIndex) ==
    IF IsAuthorsIntro(node)
    THEN << TOCItem("intro-" \o IntToStr(nodeIndex),
                    OrStr(node.title, AuthorsIntroduction),
                    title \o ", " \o AuthorsIntroduction,
                    0, "introduction", FALSE, <<>>, None) >>
    ELSE IF node.nodes # None
    THEN << TOCItem("section-" \o IntToStr(nodeIndex),
                    OrStr(node.title, "Section " \o IntToStr(nodeIndex + 1)),
                    "", 0, "section", TRUE,
                    [j \in 1..Len(node.nodes[1]) |->
                        TOCItem("subsection-" \o IntToStr(nodeIndex) \o "-" \o IntToStr(j - 1),
                                OrStr(node.nodes[1][j].title, "Subsection " \o IntToStr(j)),
                                SubsectionRef(title, node, node.nodes[1][j]),
                                1, "chapter", FALSE, <<>>, None)],
                    Some(IntToStr(Len(node.nodes[1])) \o " subsections")) >>
    ELSE <<>>

generateLikuteiHalakhotTOC(indexData) ==
    LET title == OrStr(indexData.title, "")
    IN  IF indexData.schema = None THEN Threw
        ELSE IF indexData.schema[1].nodes = None THEN Threw
        ELSE LET schemaNodes == indexData.schema[1].nodes[1]
             IN  IF \E i \in 1..Len(schemaNodes) : LHNodeThrows(schemaNodes[i])
                 THEN Threw
                 ELSE Returned(Flatten([i \in 1..Len(schemaNodes) |->
                                  LHNodeItems(title, schemaNodes[i], i - 1)]))

\* ---------------------------------------------------------- chapter ranges
\* the trailing run of decimal digits of ref ("" when there is none)
RECURSIVE TrailingDigits(_)
TrailingDigits(s) ==
    IF s # "" /\ IsDigit(SubSeq(s, Len(s), Len(s)))
    THEN TrailingDigits(SubSeq(s, 1, Len(s) - 1)) \o SubSeq(s, Len(s), Len(s))
    ELSE ""

DigitValue(c) == CHOOSE d \in 0..9 : Digit(d) = c

\* parseInt(digits, 10) of a non-empty digit string
RECURSIVE ParseInt(_)
ParseInt(ds) ==
    IF Len(ds) = 1 THEN DigitValue(ds)
    ELSE 10 * ParseInt(SubSeq(ds, 1, Len(ds) - 1)) + DigitValue(SubSeq(ds, Len(ds), Len(ds)))

\* variant of extractChapterNumber: only the last digit is read
extractChapterNumber_LastDigit(ref) ==
    IF TrailingDigits(ref) # ""
    THEN DigitValue(SubSeq(ref, Len(ref), Len(ref))) ELSE 0

extractChapterNumber(ref) ==
    IF TrailingDigits(ref) # "" THEN ParseInt(TrailingDigits(ref)) ELSE 0

\* refs is optional (undefined when the section has no refs property)
getChapterRange(refs) ==
    IF refs = None \/ Len(refs[1]) = 0 THEN ""
    ELSE LET firstChapter == extractChapterNumber(refs[1][1])
             lastChapter == extractChapterNumber(refs[1][Len(refs[1])])
         IN  IF firstChapter = lastChapter
             THEN "Chapter " \o IntToStr(firstChapter)
             ELSE "Chapters " \o IntToStr(firstChapter) \o "-" \o IntToStr(lastChapter)
                  \o " (" \o IntToStr(Len(refs[1])) \o " chapters)"

\* ------------------------------------------------------------ topic builder
HeIntroduction == "הקדמה"
HePart == "חלק"

\* sectionNode.title?.replace(/\n/g, '').trim() || fallback
CleanTitle(t, fallback) ==
    IF t = None THEN fallback
    ELSE IF Trim(RemoveNewlines(t[1])) = "" THEN fallback
    ELSE Trim(RemoveNewlines(t[1]))

IsTopicIntro(node) ==
    node.title = Some("Introduction") \/ node.heTitle = Some(HeIntroduction)

IsTopicPart(node) ==
    /\ TruthyStr(node.title)
    /\ \/ Includes(node.title[1], "Part")
       \/ (node.heTitle # None /\ Includes(node.heTitle[1], HePart))
       \/ Includes(node.title[1], "I")
       \/ Includes(node.title[1], "II")

\* the chapter leaves of one section (loop of lines 181-194)
TopicChapters(sectionNode, nodeIndex, sectionIndex) ==
    IF sectionNode.refs = None THEN <<>>
    ELSE [i \in 1..Len(sectionNode.refs[1]) |->
            TOCItem("chapter-" \o IntToStr(nodeIndex) \o "-" \o IntToStr(sectionIndex)
                        \o "-" \o IntToStr(i - 1),
                    "Chapter " \o IntToStr(extractChapterNumber(sectionNode.refs[1][i])),
                    sectionNode.refs[1][i], 2, "chapter", FALSE, <<>>, None)]

\* the sections of one part (forEach of lines 157-199)
TopicSections(node, nodeIndex) ==
    IF node.nodes = None THEN <<>>
    ELSE Flatten([s \in 1..Len(node.nodes[1]) |->
            LET sectionNode == node.nodes[1][s]
            IN  IF sectionNode.nodeType = Some("ArrayMapNode")
                THEN << TOCItem("section-" \o IntToStr(nodeIndex) \o "-" \o IntToStr(s - 1),
                                CleanTitle(sectionNode.title, "Section " \o IntToStr(s)),
                                OrStr(sectionNode.wholeRef, ""), 1, "section", TRUE,
                                TopicChapters(sectionNode, nodeIndex, s - 1),
                                Some(getChapterRange(sectionNode.refs))) >>
                ELSE <<>>])

\* the children of a structured node that is not a part (forEach of lines 219-234)
TopicOtherChildren(node, nodeIndex) ==
    Flatten([c \in 1..Len(node.nodes[1]) |->
        LET childNode == node.nodes[1][c]
        IN  IF childNode.nodeType = Some("ArrayMapNode")
            THEN << TOCItem("child-" \o IntToStr(nodeIndex) \o "-" \o IntToStr(c - 1),
                            CleanTitle(childNode.title, "Subsection " \o IntToStr(c)),
                            OrStr(childNode.wholeRef, ""), 1, "section", FALSE, <<>>,
                            Some(getChapterRange(childNode.refs))) >>
            ELSE <<>>])

TopicNodeItems(title, node, nodeIndex) ==
    IF ~(node.nodeType = Some("ArrayMapNode") \/ TruthyStr(node.title)) THEN <<>>
    ELSE IF IsTopicIntro(node)
    THEN << TOCItem("intro-" \o IntToStr(nodeIndex),
                    OrStr(node.title, "Introduction"),
                    OrStr(node.wholeRef, title \o ", Introduction"),
                    0, "introduction", FALSE, <<>>, None) >>
    ELSE IF IsTopicPart(node)
    THEN << TOCItem("part-" \o IntToStr(nodeIndex), node.title[1], "", 0, "part", TRUE,
                    TopicSections(node, nodeIndex), None) >>
    ELSE IF node.nodes # None /\ Len(node.nodes[1]) > 0
    THEN << TOCItem("other-" \o IntToStr(nodeIndex),
                    OrStr(node.title, "Section " \o IntToStr(nodeIndex + 1)),
                    OrStr(node.wholeRef, ""), 0, "section", TRUE,
                    TopicOtherChildren(node, nodeIndex), None) >>
    ELSE <<>>

generateTopicBasedTOC(indexData) ==
    LET title == OrStr(indexData.title, "")
        topicNodes == indexData.altsTopicNodes[1]
    IN  Returned(Flatten([i \in 1..Len(topicNodes) |->
                    TopicNodeItems(title, topicNodes[i], i - 1)]))

\* ----------------------------------------------------------- schema builder
\* the numbered children of a Torah section (loop of lines 368-379)
TorahChildren(title, node) ==
    [i \in 1..TorahTotal |->
        TOCItem("torah-" \o IntToStr(i),
                node.sectionNames[1][1] \o " " \o IntToStr(i),
                title \o "." \o IntToStr(i), 1, "chapter", FALSE, <<>>, None)]

HasTorah(node) ==
    node.sectionNames # None /\ ArrayIncludes(node.sectionNames[1], "Torah")

SchemaNodeItems(title, node, nodeIndex) ==
    IF node.nodeType # Some("JaggedArrayNode") THEN <<>>
    ELSE LET nodeTitle == IF TruthyStr(node.title) THEN node.title[1]
                          ELSE OrStr(node.key, "Section " \o IntToStr(nodeIndex + 1))
         IN  IF nodeTitle = "Introduction" \/ node.key = Some("Introduction")
             THEN << TOCItem("intro-" \o IntToStr(nodeIndex), nodeTitle,
                             title \o ", Introduction",
                             0, "introduction", FALSE, <<>>, None) >>
             ELSE IF node.default \/ (node.depth # None /\ node.depth[1] >= 2
                                      /\ node.sectionNames # None)
             THEN << TOCItem("section-" \o IntToStr(nodeIndex), nodeTitle, "",
                             0, "section", TRUE,
                             IF HasTorah(node) THEN TorahChildren(title, node) ELSE <<>>,
                             IF HasTorah(node)
                             THEN Some(IntToStr(TorahTotal) \o " "
                                       \o node.sectionNames[1][1] \o "s")
                             ELSE None) >>
             ELSE IF TruthyStr(node.title)
             THEN << TOCItem("section-" \o IntToStr(nodeIndex), node.title[1],
                             OrStr(node.wholeRef, title \o ", " \o node.title[1]),
                             0, "section", FALSE, <<>>,
                             IF Includes(node.title[1], "Part II")
                             THEN Some("Torah teachings 1-125") ELSE None) >>
             ELSE <<>>

generateSchemaBasedTOC(indexData) ==
    LET title == OrStr(indexData.title, "")
        schemaNodes == indexData.schema[1].nodes[1]
    IN  Returned(Flatten([i \in 1..Len(schemaNodes) |->
                    SchemaNodeItems(title, schemaNodes[i], i - 1)]))

\* ------------------------------------------------------------- flat builder
generateSimpleTOC(indexData) ==
    LET title == OrStr(indexData.title, "")
        schema == indexData.schema[1]
    IN  IF schema.sectionNames # None /\ Len(schema.sectionNames[1]) > 0
           /\ schema.sectionNames[1][1] # ""
        THEN LET sectionName == schema.sectionNames[1][1]
             IN  Returned(<< TOCItem("main-content", "All " \o sectionName \o "s", "",
                                0, "section", TRUE,
                                [i \in 1..SimpleTotal |->
                                    TOCItem("chapter-" \o IntToStr(i),
                                            sectionName \o " " \o IntToStr(i),
                                            title \o "." \o IntToStr(i),
                                            1, "chapter", FALSE, <<>>, None)],
                                Some(sectionName \o "s 1-" \o IntToStr(SimpleTotal))) >>)
        ELSE Returned(<<>>)

\* ----------------------------------------------------------------- dispatch
\* variant of SelectedBuilder: the schema node list is tested before the topic
\* structure
SelectedBuilder_SchemaFirst(indexData) ==
    LET title == OrStr(indexData.title, "")
    IN  IF title = "Likutei Halakhot" \/ title = "Likutei_Halakhot" THEN "likutei"
        ELSE IF indexData.schema # None /\ indexData.schema[1].nodes # None THEN "schema"
        ELSE IF indexData.altsTopicNodes # None THEN "topic"
        ELSE IF indexData.schema # None
                /\ indexData.schema[1].nodeType = Some("JaggedArrayNode") THEN "simple"
        ELSE "none"

\* which builder generateHierarchicalTOC hands the document to.  A document
\* that is null or a primitive reads every property as undefined (?.).
SelectedBuilder(indexData) ==
    LET title == OrStr(indexData.title, "")
    IN  IF title = "Likutei Halakhot" \/ title = "Likutei_Halakhot" THEN "likutei"
        ELSE IF indexData.altsTopicNodes # None THEN "topic"
        ELSE IF indexData.schema # None /\ indexData.schema[1].nodes # None THEN "schema"
        ELSE IF indexData.schema # None
                /\ indexData.schema[1].nodeType = Some("JaggedArrayNode") THEN "simple"
        ELSE "none"

\* variant of generateHierarchicalTOC: indexData.title read without ?.
generateHierarchicalTOC_Unguarded(indexData) ==
    IF indexData.kind \in {"null", "undefined"} THEN Threw
    ELSE LET b == SelectedBuilder(indexData)
         IN  IF b = "likutei" THEN generateLikuteiHalakhotTOC(indexData)
             ELSE IF b = "topic" THEN generateTopicBasedTOC(indexData)
             ELSE IF b = "schema" THEN generateSchemaBasedTOC(indexData)
             ELSE IF b = "simple" THEN generateSimpleTOC(indexData)
             ELSE Returned(<<>>)

generateHierarchicalTOC(indexData) ==
    LET b == SelectedBuilder(indexData)
    IN  IF b = "likutei" THEN generateLikuteiHalakhotTOC(indexData)
        ELSE IF b = "topic" THEN generateTopicBasedTOC(indexData)
        ELSE IF b = "schema" THEN generateSchemaBasedTOC(indexData)
        ELSE IF b = "simple" THEN generateSimpleTOC(indexData)
        ELSE Returned(<<>>)

\* ------------------------------------------------------------- tree update
\* variant of updateItem: the matching item is expanded instead of inverted
RECURSIVE updateItem_OnlyExpands(_, _)
updateItem_OnlyExpands(items, itemId) ==
    [i \in 1..Len(items) |->
        IF items[i].id = itemId
        THEN [items[i] EXCEPT !.isExpanded = TRUE]
        ELSE IF Len(items[i].children) > 0
        THEN [items[i] EXCEPT !.children = updateItem_OnlyExpands(@, itemId)]
        ELSE items[i]]

\* updateItem of _toggleExpansion (lines 720-730)
RECURSIVE updateItem(_, _)
updateItem(items, itemId) ==
    [i \in 1..Len(items) |->
        IF items[i].id = itemId
        THEN [items[i] EXCEPT !.isExpanded = ~@]
        ELSE IF Len(items[i].children) > 0
        THEN [items[i] EXCEPT !.children = updateItem(@, itemId)]
        ELSE items[i]]

\* ------------------------------------------------------------- navigation
\* encodeURIComponent on the characters that occur in references
EncodeChar(c) ==
    IF c = " " THEN "%20"
    ELSE IF c = "," THEN "%2C"
    ELSE IF c = "\t" THEN "%09"
    ELSE IF c = "\n" THEN "%0A"
    ELSE c

RECURSIVE encodeURIComponent(_)
encodeURIComponent(s) ==
    IF s = "" THEN "" ELSE EncodeChar(Head(s)) \o encodeURIComponent(Tail(s))

\* what handleSectionPress does with a pressed item: the id it hands to the
\* debounced toggle, and the navigation call it makes (hasCallback: the
\* onSectionPress prop is set)
PressToggles(item) == item.isCollapsible

\* variant of PressNavigates: any item with a reference navigates
PressNavigates_AnyReference(item) == item.reference # ""

PressNavigates(item) == ~item.isCollapsible /\ item.reference # ""

Navigation(item, hasCallback) ==
    IF hasCallback
    THEN [via |-> "onSectionPress", arg |-> item.reference]
    ELSE [via |-> "router.push", arg |-> "/text/" \o encodeURIComponent(item.reference)]

\* the items renderTOCItem puts on screen: the roots, and the children of
\* every expanded item; presses are drawn from the first MaxPressIndex
\* entries of each list
RECURSIVE Rendered(_)
Rendered(items) ==
    UNION { {items[i]} \cup (IF items[i].isExpanded /\ Len(items[i].children) > 0
                             THEN Rendered(items[i].children) ELSE {})
            : i \in 1..(IF Len(items) < MaxPressIndex THEN Len(items) ELSE MaxPressIndex) }

\* every item on screen: the roots, and the children of every expanded item
RECURSIVE OnScreen(_)
OnScreen(items) ==
    UNION { {items[i]} \cup (IF items[i].isExpanded /\ Len(items[i].children) > 0
                             THEN OnScreen(items[i].children) ELSE {})
            : i \in 1..Len(items) }

\* the items on screen a press expands or collapses
Expandable(items) == { item \in OnScreen(items) : item.isCollapsible }

\* the ids _toggleExpansion is applied with: those of the first MaxPressIndex
\* entries of each list, expanded or not, and one id no item has
RECURSIVE ToggleIds(_)
ToggleIds(items) ==
    {"missing"} \cup
    UNION { {items[i].id} \cup ToggleIds(items[i].children)
            : i \in 1..(IF Len(items) < MaxPressIndex THEN Len(items) ELSE MaxPressIndex) }

\* every item of a forest, parents before children, in document order
RECURSIVE Nodes(_)
Nodes(items) ==
    Flatten([i \in 1..Len(items) |-> <<items[i]>> \o Nodes(items[i].children)])

\* ------------------------------------------------------- input documents
SeqsUpTo(S, n) == UNION { [1..k -> S] : k \in 0..n }

\* a raw node with no property set
N0 == [nodeType |-> None, title |-> None, heTitle |-> None, key |-> None,
       wholeRef |-> None, nodes |-> None, refs |-> None, default |-> FALSE,
       depth |-> None, sectionNames |-> None]

\* second-level raw nodes
ChildVariants ==
    { [N0 EXCEPT !.nodeType = Some("ArrayMapNode"), !.title = Some("Morning Conduct"),
                 !.wholeRef = Some("X.3-5"), !.refs = Some(<<"X.3", "X.4", "X.5">>)],
      [N0 EXCEPT !.nodeType = Some("ArrayMapNode")],
      [N0 EXCEPT !.nodeType = Some("ArrayMapNode"), !.title = Some(" Laws\n"),
                 !.refs = Some(<<"X.9">>)],
      [N0 EXCEPT !.nodeType = Some("ArrayMapNode"), !.title = Some("Prefaces"),
                 !.refs = Some(<<"X, Preface", "X2.17", "X, Afterword">>)] }

ChildLists == SeqsUpTo(ChildVariants, MaxChildNodes)

\* top-level raw nodes of a compound-legal document, over one child list
LegalVariants(cs) ==
    { [N0 EXCEPT !.title = Some(AuthorsIntroduction)],
      [N0 EXCEPT !.heTitle = Some(HeAuthorsIntroduction)],
      [N0 EXCEPT !.title = Some("Orach\t Chaim"), !.nodes = Some(cs)],
      [N0 EXCEPT !.nodes = Some(cs)],
      [N0 EXCEPT !.title = Some("Plain")] }

\* top-level raw nodes of a topic structure, over one child list
TopicVariants(cs) ==
    { [N0 EXCEPT !.title = Some("Introduction"), !.wholeRef = Some("X, Introduction")],
      [N0 EXCEPT !.nodeType = Some("ArrayMapNode"), !.heTitle = Some(HeIntroduction)],
      [N0 EXCEPT !.title = Some("Part I"), !.nodes = Some(cs)],
      [N0 EXCEPT !.title = Some("Orach Chaim"), !.wholeRef = Some("X, Orach Chaim"),
                 !.nodes = Some(cs)],
      [N0 EXCEPT !.nodes = Some(cs)],
      [N0 EXCEPT !.title = Some("Part II")] }

\* top-level raw nodes of a nested schema
SchemaVariants ==
    { [N0 EXCEPT !.nodeType = Some("JaggedArrayNode"), !.default = TRUE,
                 !.sectionNames = Some(<<"Torah", "Paragraph">>)],
      [N0 EXCEPT !.nodeType = Some("JaggedArrayNode"), !.title = Some("Teachings"),
                 !.depth = Some(2), !.sectionNames = Some(<<"Chapter", "Torah">>)],
      [N0 EXCEPT !.nodeType = Some("JaggedArrayNode"), !.title = Some("Prayers"),
                 !.default = TRUE, !.sectionNames = Some(<<"Chapter">>)],
      [N0 EXCEPT !.nodeType = Some("JaggedArrayNode"), !.title = Some("Part II")],
      [N0 EXCEPT !.nodeType = Some("JaggedArrayNode"), !.key = Some("Introduction")],
      [N0 EXCEPT !.title = Some("Plain")] }

Schema(nodeType, nodes, sectionNames) ==
    [nodeType |-> nodeType, nodes |-> nodes, sectionNames |-> sectionNames]

FlatSchemas ==
    { Some(Schema(Some("JaggedArrayNode"), None, sn)) :
        sn \in {None, Some(<<>>), Some(<<"Chapter">>), Some(<<"Section", "Paragraph">>)} }

LegalTitles == {Some("Likutei Halakhot"), Some("Likutei_Halakhot")}

OtherTitles == {Some("X"), None}

\* lengths is the number of units the document declares (optional)
Object(title, altsTopicNodes, schema) ==
    [kind |-> "object", title |-> title, altsTopicNodes |-> altsTopicNodes,
     schema |-> schema, lengths |-> None]

\* null or a primitive: every property read through ?. is undefined
NonObject(kind) ==
    [kind |-> kind, title |-> None, altsTopicNodes |-> None, schema |-> None,
     lengths |-> None]

LegalDocs ==
    { Object(t, None, Some(Schema(None, Some(ns), None))) :
        t \in LegalTitles,
        ns \in UNION { SeqsUpTo(LegalVariants(cs), MaxTopNodes) : cs \in ChildLists } }

TopicDocs ==
    { Object(Some("X"), Some(ns), None) :
        ns \in UNION { SeqsUpTo(TopicVariants(cs), MaxTopNodes) : cs \in ChildLists } }

SchemaDocs ==
    { Object(t, None, Some(Schema(None, Some(ns), None))) :
        t \in OtherTitles, ns \in SeqsUpTo(SchemaVariants, MaxTopNodes) }

\* documents that match several conventions at once, or none
MixedDocs ==
    { Object(t, a, s) :
        t \in LegalTitles \cup OtherTitles,
        a \in {None, Some(<<>>),
               Some(<<[N0 EXCEPT !.title = Some("Part I"), !.nodes = Some(<<>>)]>>)},
        s \in FlatSchemas
              \cup {None, Some(Schema(Some("SchemaNode"), None, None)),
                    Some(Schema(Some("JaggedArrayNode"), Some(<<>>), Some(<<"Chapter">>))),
                    Some(Schema(None,
                                Some(<<[N0 EXCEPT !.nodeType = Some("JaggedArrayNode"),
                                                  !.title = Some("Part II")]>>), None))} }

\* flat documents that declare their number of chapters
CountedDocs ==
    { [Object(t, None, Some(Schema(Some("JaggedArrayNode"), None, Some(<<"Chapter">>))))
          EXCEPT !.lengths = Some(<<n>>)] :
        t \in {Some("X"), Some("Sichot HaRan")}, n \in {5, 307} }

NonObjects == { NonObject(k) : k \in {"null", "undefined", "zero", "number", "string"} }

Docs ==
    LegalDocs \cup TopicDocs \cup SchemaDocs \cup MixedDocs \cup CountedDocs
        \cup NonObjects

\* if (indexData)
Truthy(indexData) == indexData.kind \in {"object", "number", "string"}

\* -------------------------------------------------------- bookmark storage
\* a Date object, and the string JSON.stringify writes for it
DateValue(ms) == [tag |-> "Date", ms |-> ms]
IsoString(ms) == [tag |-> "string", ms |-> ms]

\* JSON.stringify(bookmarks) as JSON.parse reads it back: a Date is a string
Stringify(bookmarks) ==
    [i \in 1..Len(bookmarks) |->
        [bookmarks[i] EXCEPT !.dateCreated =
            IF @.tag = "Date" THEN IsoString(@.ms) ELSE @]]

\* bookmarks.map(bookmark => ({...bookmark, dateCreated: new Date(bookmark.dateCreated)}))
Revive(bookmarks) ==
    [i \in 1..Len(bookmarks) |->
        [bookmarks[i] EXCEPT !.dateCreated = DateValue(@.ms)]]

\* variant of getBookmarks: a failed read is not caught
getBookmarks_Unguarded(json, readFails) ==
    IF readFails THEN Threw
    ELSE IF json = None THEN Returned(<<>>)
    ELSE Returned(Revive(json[1]))

\* json is the stored entry (None for null); readFails: AsyncStorage.getItem rejects
getBookmarks(json, readFails) ==
    IF readFails THEN Returned(<<>>)
    ELSE IF json = None THEN Returned(<<>>)
    ELSE Returned(Revive(json[1]))

AlreadyExists == "Bookmark already exists for this passage"

StorageError == "Storage error"

\* outcome of a service call: the settled promise and the entry it leaves
Resolved(value, json) ==
    [status |-> "resolved", value |-> Some(value), error |-> "", json |-> json]
Rejected(error, json) ==
    [status |-> "rejected", value |-> None, error |-> error, json |-> json]

\* writeFails: AsyncStorage.setItem rejects
saveBookmark(json, bookmark, time, readFails, writeFails) ==
    LET existing == getBookmarks(json, readFails)
    IN  IF existing.threw THEN Rejected(StorageError, json)
        ELSE IF \E i \in 1..Len(existing.items) :
                    existing.items[i].reference = bookmark.reference
        THEN Rejected(AlreadyExists, json)
        ELSE LET newBookmark ==
                     [textTitle |-> bookmark.textTitle, reference |-> bookmark.reference,
                      passage |-> bookmark.passage, id |-> IntToStr(time),
                      dateCreated |-> DateValue(time)]
             IN  IF writeFails THEN Rejected(StorageError, json)
                 ELSE Resolved(newBookmark,
                               Some(Stringify(Append(existing.items, newBookmark))))

\* existingBookmarks.filter(b => b.id !== bookmarkId)
RECURSIVE WithoutId(_, _)
WithoutId(bookmarks, bookmarkId) ==
    IF bookmarks = <<>> THEN <<>>
    ELSE IF Head(bookmarks).id # bookmarkId
    THEN <<Head(bookmarks)>> \o WithoutId(Tail(bookmarks), bookmarkId)
    ELSE WithoutId(Tail(bookmarks), bookmarkId)

deleteBookmark(json, bookmarkId, readFails, writeFails) ==
    LET existing == getBookmarks(json, readFails)
    IN  IF existing.threw THEN Rejected(StorageError, json)
        ELSE IF writeFails THEN Rejected(StorageError, json)
        ELSE Resolved("undefined", Some(Stringify(WithoutId(existing.items, bookmarkId))))

isBookmarked(json, reference, readFails) ==
    LET bookmarks == getBookmarks(json, readFails)
    IN  IF bookmarks.threw THEN Resolved(FALSE, json)
        ELSE Resolved(\E i \in 1..Len(bookmarks.items) :
                          bookmarks.items[i].reference = reference, json)

\* the arguments of the calls
References == {"Test.1.1", "Test.2.1"}

NewBookmarks ==
    { [textTitle |-> "Test Text", reference |-> r, passage |-> "Test passage"] :
        r \in References }

BookmarkIds == { IntToStr(t) : t \in 0..MaxClock } \cup {"missing"}

\* ------------------------------------------------------------ text service
SEFARIA_BASE_URL == "https://www.sefaria.org/api"

\* 24 hours in milliseconds
CACHE_TTL == 24 * 60 * 60 * 1000

TextNotFound == "Text not found. Please check the reference."
TooManyRequests == "Too many requests. Please wait and try again."
NoInternet == "No internet connection. Please check your network."
Unexpected == "An unexpected error occurred. Please try again."

\* an exception value
Error(name, message) == [name |-> name, message |-> message]

\* variant of handleApiError: the status code in the message is not read
handleApiError_NoStatus(error, offline) ==
    IF Includes(error.message, "Text not found") THEN TextNotFound
    ELSE IF Includes(error.message, "Too many requests") THEN TooManyRequests
    ELSE IF error.message = "Network error" THEN Unexpected
    ELSE IF error.name = "TypeError" /\ Includes(error.message, "fetch") THEN NoInternet
    ELSE IF offline THEN NoInternet
    ELSE Unexpected

\* offline: typeof navigator !== 'undefined' && !navigator.onLine
handleApiError(error, offline) ==
    IF Includes(error.message, "Text not found") THEN TextNotFound
    ELSE IF Includes(error.message, "Too many requests") THEN TooManyRequests
    ELSE IF Includes(error.message, "HTTP 404") THEN TextNotFound
    ELSE IF Includes(error.message, "HTTP 429") THEN TooManyRequests
    ELSE IF error.message = "Network error" THEN Unexpected
    ELSE IF error.name = "TypeError" /\ Includes(error.message, "fetch") THEN NoInternet
    ELSE IF offline THEN NoInternet
    ELSE Unexpected

\* interface SefariaTextOptions; every property is optional
O0 == [language |-> None, version |-> None, commentary |-> None, context |-> None,
       pad |-> None, wrapLinks |-> None]

\* application/x-www-form-urlencoded of the characters that occur: ' ' is '+'
RECURSIVE FormEncode(_)
FormEncode(v) ==
    IF v = "" THEN ""
    ELSE (IF Head(v) = " " THEN "+" ELSE Head(v)) \o FormEncode(Tail(v))

\* params.toString() after the appends of lines 229-234
RECURSIVE JoinWith(_, _)
JoinWith(parts, sep) ==
    IF parts = <<>> THEN ""
    ELSE IF Len(parts) = 1 THEN parts[1]
    ELSE parts[1] \o sep \o JoinWith(Tail(parts), sep)

QueryString(options) ==
    JoinWith(
        (IF TruthyStr(options.language)
         THEN <<"lang=" \o FormEncode(options.language[1])>> ELSE <<>>)
        \o (IF TruthyStr(options.version)
            THEN <<"version=" \o FormEncode(options.version[1])>> ELSE <<>>)
        \o (IF options.commentary = Some(TRUE) THEN <<"commentary=1">> ELSE <<>>)
        \o (IF options.context = Some(TRUE) THEN <<"context=1">> ELSE <<>>)
        \o (IF options.pad # None /\ options.pad[1] # 0
            THEN <<"pad=" \o IntToStr(options.pad[1])>> ELSE <<>>)
        \o (IF options.wrapLinks = Some(TRUE) THEN <<"wrapLinks=1">> ELSE <<>>),
        "&")

TextUrl(ref, options) ==
    SEFARIA_BASE_URL \o "/texts/" \o ref
        \o (IF QueryString(options) # "" THEN "?" \o QueryString(options) ELSE "")

IndexUrl(title) == SEFARIA_BASE_URL \o "/index/" \o title

Quote(v) == "\"" \o v \o "\""

\* JSON.stringify(options): the properties that are set, in the order written
StringifyOptions(options) ==
    "{" \o JoinWith(
        (IF options.language # None
         THEN <<Quote("language") \o ":" \o Quote(options.language[1])>> ELSE <<>>)
        \o (IF options.version # None
            THEN <<Quote("version") \o ":" \o Quote(options.version[1])>> ELSE <<>>)
        \o (IF options.commentary # None
            THEN <<Quote("commentary") \o ":"
                     \o (IF options.commentary[1] THEN "true" ELSE "false")>> ELSE <<>>)
        \o (IF options.context # None
            THEN <<Quote("context") \o ":"
                     \o (IF options.context[1] THEN "true" ELSE "false")>> ELSE <<>>)
        \o (IF options.pad # None
            THEN <<Quote("pad") \o ":" \o IntToStr(options.pad[1])>> ELSE <<>>)
        \o (IF options.wrapLinks # None
            THEN <<Quote("wrapLinks") \o ":"
                     \o (IF options.wrapLinks[1] THEN "true" ELSE "false")>> ELSE <<>>),
        ",") \o "}"

CacheKey(ref, options) == ref \o "__" \o StringifyOptions(options)

\* what fetch(url) does: it rejects, or resolves to a response whose json()
\* rejects or resolves to the parsed body
FetchRejects(error) == [rejects |-> TRUE, error |-> error]

Response(ok, status, statusText, json) ==
    [rejects |-> FALSE, ok |-> ok, status |-> status, statusText |-> statusText,
     json |-> json]

JsonRejects == [rejects |-> TRUE]
JsonResolves(data) == [rejects |-> FALSE, data |-> data]

\* parsed bodies: an object (its error property is optional), or null
ObjectBody(error, name, content) ==
    [kind |-> "object", error |-> error, name |-> name, content |-> content]
NullBody == [kind |-> "null"]

\* the outcomes of one fetch for name (a reference or a title)
FetchOutcomes(name) ==
    { FetchRejects(Error("Error", "Network error")),
      FetchRejects(Error("TypeError", "Failed to fetch")),
      Response(FALSE, 404, "Not Found", JsonRejects),
      Response(FALSE, 429, "Too Many Requests", JsonRejects),
      Response(FALSE, 500, "Internal Server Error", JsonRejects),
      Response(TRUE, 200, "OK", JsonRejects),
      Response(TRUE, 200, "OK", JsonResolves(NullBody)),
      Response(TRUE, 200, "OK",
               JsonResolves(ObjectBody(Some("Could not find ref"), name, <<>>))),
      Response(TRUE, 200, "OK",
               JsonResolves(ObjectBody(None, name, <<"Test text content">>))) }

\* the try block up to the parsed body: the body, or the exception thrown;
\* statusErrors: 404 and 429 have messages of their own (lines 241-246)
Fetched(f, statusErrors) ==
    IF f.rejects THEN [threw |-> TRUE, error |-> f.error]
    ELSE IF ~f.ok
    THEN [threw |-> TRUE, error |->
            IF statusErrors /\ f.status = 404 THEN Error("Error", TextNotFound)
            ELSE IF statusErrors /\ f.status = 429 THEN Error("Error", TooManyRequests)
            ELSE Error("Error", "HTTP " \o IntToStr(f.status) \o ": " \o f.statusText)]
    ELSE IF f.json.rejects
    THEN [threw |-> TRUE, error |-> Error("SyntaxError", "JSON Parse error")]
    ELSE IF f.json.data.kind = "null"
    THEN [threw |-> TRUE,
          error |-> Error("TypeError", "Cannot read property 'error' of null")]
    ELSE IF TruthyStr(f.json.data.error)
    THEN [threw |-> TRUE,
          error |-> Error("Error", "API Error: " \o f.json.data.error[1])]
    ELSE [threw |-> FALSE, data |-> f.json.data]

\* SefariaCache.get: cache maps a key to None or Some([data, timestamp]);
\* readFails: getItem rejects; removeFails: removeItem rejects
SefariaCacheGet(cache, key, time, readFails, removeFails) ==
    IF readFails THEN [data |-> None, cache |-> cache]
    ELSE IF cache[key] = None THEN [data |-> None, cache |-> cache]
    ELSE IF time - cache[key][1].timestamp > CACHE_TTL
    THEN [data |-> None,
          cache |-> IF removeFails THEN cache ELSE [cache EXCEPT ![key] = None]]
    ELSE [data |-> Some(cache[key][1].data), cache |-> cache]

\* SefariaCache.set
SefariaCacheSet(cache, key, data, time) ==
    [cache EXCEPT ![key] = Some([data |-> data, timestamp |-> time])]

FallbackText(ref, error) ==
    [ref |-> ref, heRef |-> "", text |-> <<"Text not available">>, he |-> <<"">>,
     book |-> "", categories |-> <<>>, versions |-> <<>>, sections |-> <<>>,
     sectionNames |-> <<>>, textDepth |-> 0, error |-> error]

\* the object literal {}
EmptyObject == [kind |-> "object", properties |-> {}]

FallbackIndex(title, error) ==
    [title |-> title, heTitle |-> "", categories |-> <<>>, sectionNames |-> <<>>,
     lengths |-> <<>>, textDepth |-> 0, schema |-> EmptyObject, error |-> error]

\* env: what the environment does during the call
getText(ref, options, cache, time, env) ==
    LET cacheKey == CacheKey(ref, options)
        cached == SefariaCacheGet(cache, cacheKey, time, env.readFails, env.removeFails)
        got == Fetched(env.fetch, TRUE)
    IN  IF cached.data # None
        THEN [value |-> cached.data[1], cache |-> cached.cache, path |-> "cached"]
        ELSE IF got.threw
        THEN [value |-> FallbackText(ref, handleApiError(got.error, env.offline)),
              cache |-> cached.cache, path |-> "failed"]
        ELSE IF env.writeFails
        THEN [value |-> FallbackText(ref, handleApiError(Error("Error", StorageError),
                                                         env.offline)),
              cache |-> cached.cache, path |-> "fetched, not cached"]
        ELSE [value |-> got.data,
              cache |-> SefariaCacheSet(cached.cache, cacheKey, got.data, time),
              path |-> "fetched"]

getIndex(title, env) ==
    LET got == Fetched(env.fetch, FALSE)
    IN  IF got.threw
        THEN [value |-> FallbackIndex(title, handleApiError(got.error, env.offline)),
              path |-> "failed"]
        ELSE [value |-> got.data, path |-> "fetched"]

\* the arguments of the calls
TextRefs == {"Sichot_HaRan.1", "Invalid.Ref"}

TextOptions == {O0, [O0 EXCEPT !.language = Some("en"), !.version = Some("Test Version")]}

\* the calls made: a reference with and without options, and another reference
TextCalls ==
    { c \in TextRefs \X TextOptions : c[1] = "Sichot_HaRan.1" \/ c[2] = O0 }

IndexTitles == {"Sichot_HaRan", "Invalid_Title"}

CacheKeys == { CacheKey(ref, options) : ref \in TextRefs, options \in TextOptions }

\* the fetch hands the call a body without an error property
Succeeds(f) ==
    /\ ~f.rejects
    /\ f.ok
    /\ ~f.json.rejects
    /\ f.json.data.kind = "object"
    /\ ~TruthyStr(f.json.data.error)

\* what the environment does during a call; a choice the call cannot come to
\* is left FALSE (nothing is removed after a failed read, nothing is written
\* without a body, navigator is read only when an error is reported)
Environments(name) ==
    { env \in [fetch : FetchOutcomes(name), readFails : BOOLEAN, removeFails : BOOLEAN,
               writeFails : BOOLEAN, offline : BOOLEAN] :
        /\ env.removeFails => ~env.readFails
        /\ env.writeFails => Succeeds(env.fetch)
        /\ env.offline => (~Succeeds(env.fetch) \/ env.writeFails) }

\* getIndex uses no cache
IndexEnvironments(name) ==
    { env \in Environments(name) : ~env.readFails /\ ~env.removeFails /\ ~env.writeFails }

\* what the cache may hold when the app starts: nothing, or a text stored at time 0
StoredCaches ==
    { [k \in CacheKeys |-> None],
      [k \in CacheKeys |->
          IF k = CacheKey("Sichot_HaRan.1", O0)
          THEN Some([data |-> ObjectBody(None, "Sichot_HaRan.1", <<"Test text content">>),
                     timestamp |-> 0])
          ELSE None] }

\* ------------------------------------------------------ text navigation
\* s.split('.')
RECURSIVE SplitDot(_)
SplitDot(s) ==
    IF s = "" THEN <<"">>
    ELSE IF Head(s) = "." THEN <<"">> \o SplitDot(Tail(s))
    ELSE LET r == SplitDot(Tail(s)) IN <<Head(s) \o r[1]>> \o Tail(r)

\* the leading run of decimal digits of s
RECURSIVE LeadingDigits(_)
LeadingDigits(s) ==
    IF s # "" /\ IsDigit(Head(s)) THEN Head(s) \o LeadingDigits(Tail(s)) ELSE ""

\* the number value NaN
NaN == <<>>

\* parseInt(s, 10): leading whitespace, an optional sign, then digits
parseInt(s) ==
    LET t == DropWs(s)
        signed == t # "" /\ Head(t) \in {"-", "+"}
        ds == LeadingDigits(IF signed THEN Tail(t) ELSE t)
    IN  IF ds = "" THEN NaN
        ELSE IF signed /\ Head(t) = "-" THEN <<0 - ParseInt(ds)>>
        ELSE <<ParseInt(ds)>>

\* n + k on number values
Plus(n, k) == IF n = NaN THEN NaN ELSE <<n[1] + k>>

\* template-literal formatting of a number value
NumberToString(n) ==
    IF n = NaN THEN "NaN"
    ELSE IF n[1] < 0 THEN "-" \o IntToStr(0 - n[1])
    ELSE IntToStr(n[1])

\* how the request of one probe goes: HEAD is answered, HEAD is answered 405
\* and GET is answered, the same with a response url that contains 'error',
\* or the request fails
NavTransports == {"head", "get", "error-url", "rejects"}

ProbeUrl(ref) == "https://www.sefaria.org/api/texts/" \o ref

\* isValidReference(ref); validRefs are the references the server has
isValidReference(ref, validRefs, transport) ==
    IF transport = "rejects" THEN FALSE
    ELSE LET status == IF transport = "head"
                       THEN (IF ref \in validRefs THEN 200 ELSE 404)
                       ELSE 405
         IN  IF status = 405
             THEN LET getOk == ref \in validRefs
                      url == IF transport = "error-url"
                             THEN "https://www.sefaria.org/error" ELSE ProbeUrl(ref)
                  IN  getOk /\ ~Includes(url, "error")
             ELSE status \in 200..299

\* a result of generateNextReference / generatePreviousReference: the value
\* (None is null) and the probes made, in order
NavResult(value, probes) == [value |-> value, probes |-> probes]

Probe(ref, transport, ok) == [ref |-> ref, transport |-> transport, ok |-> ok]

\* if (await isValidReference(c1)) return c1; if (await ...(c2)) return c2; ...
\* return null
RECURSIVE TryEach(_, _, _, _)
TryEach(candidates, validRefs, transports, probes) ==
    IF candidates = <<>> THEN NavResult(None, probes)
    ELSE LET ok == isValidReference(Head(candidates), validRefs, Head(transports))
             made == Append(probes, Probe(Head(candidates), Head(transports), ok))
         IN  IF ok THEN NavResult(Some(Head(candidates)), made)
             ELSE TryEach(Tail(candidates), validRefs, Tail(transports), made)

\* the references generateNextReference may probe, in order
NextCandidates(currentRef) ==
    LET parts == SplitDot(currentRef)
    IN  IF Len(parts) = 2
        THEN LET chapterNum == parseInt(parts[2])
             IN  << currentRef \o ".1",
                    parts[1] \o "." \o NumberToString(Plus(chapterNum, 1)) >>
        ELSE IF Len(parts) = 3
        THEN LET chapterNum == parseInt(parts[2])
                 sectionNum == parseInt(parts[3])
             IN  << parts[1] \o "." \o NumberToString(chapterNum) \o "."
                        \o NumberToString(Plus(sectionNum, 1)),
                    parts[1] \o "." \o NumberToString(Plus(chapterNum, 1)) \o ".1",
                    parts[1] \o "." \o NumberToString(Plus(chapterNum, 1)) >>
        ELSE <<>>

\* currentRef is None when the caller passes undefined: split throws and the
\* catch returns null
generateNextReference(currentRef, validRefs, transports) ==
    IF currentRef = None THEN NavResult(None, <<>>)
    ELSE IF Len(SplitDot(currentRef[1])) = 1
    THEN NavResult(Some(currentRef[1] \o ".1"), <<>>)
    ELSE TryEach(NextCandidates(currentRef[1]), validRefs, transports, <<>>)

\* the references generatePreviousReference may probe, in order
PreviousCandidates(currentRef) ==
    LET parts == SplitDot(currentRef)
    IN  IF Len(parts) = 2
        THEN LET chapterNum == parseInt(parts[2])
             IN  IF chapterNum # NaN /\ chapterNum[1] <= 1 THEN <<>>
                 ELSE << parts[1] \o "." \o NumberToString(Plus(chapterNum, -1)) >>
        ELSE IF Len(parts) = 3
        THEN LET chapterNum == parseInt(parts[2])
                 sectionNum == parseInt(parts[3])
             IN  (IF sectionNum # NaN /\ sectionNum[1] > 1
                  THEN << parts[1] \o "." \o NumberToString(chapterNum) \o "."
                            \o NumberToString(Plus(sectionNum, -1)) >>
                  ELSE <<>>)
                 \o (IF chapterNum # NaN /\ chapterNum[1] > 1
                     THEN << parts[1] \o "." \o NumberToString(Plus(chapterNum, -1)) >>
                     ELSE <<>>)
        ELSE <<>>

generatePreviousReference(currentRef, validRefs, transports) ==
    IF currentRef = None THEN NavResult(None, <<>>)
    ELSE TryEach(PreviousCandidates(currentRef[1]), validRefs, transports, <<>>)

\* the references the server may have
ServerRefs ==
    {"Likutei_Moharan.1", "Likutei_Moharan.2", "Likutei_Moharan.1.1",
     "Likutei_Moharan.1.2", "Likutei_Moharan.2.1"}

\* the references navigation is asked about; None is undefined
NavRefs ==
    { Some(r) : r \in ServerRefs \cup {"Likutei_Moharan", "Likutei_Moharan.1.1.1",
                                       "Likutei_Moharan.x", ""} }
        \cup {None}

\* ------------------------------------------------------------------- state
VARIABLES
    indexData,  \* the fetched index document
    ret,        \* outcome of a call generateHierarchicalTOC(indexData)
    tocItems,   \* React state of the component
    effect,     \* "pending", "done", "skipped", or "crashed" (the effect threw)
    timer,      \* the pending debounce timer: None or Some(itemId)
    navLog,     \* navigation calls made so far
    pressed,    \* the item of the last press: None or Some(item)
    presses,    \* number of presses so far
    toggled,    \* the ids _toggleExpansion was called with directly, in order
    prev,       \* tocItems before the last direct calls, latest first (at most 2)
    now,        \* Date.now(), in milliseconds from an origin
    bookmarksJson,  \* the AsyncStorage entry 'breslov_bookmarks': None or Some(list)
    bret,       \* the last BookmarkService call and how it settled
    ops,        \* number of BookmarkService calls so far
    textCache,  \* the AsyncStorage entries 'sefaria_text_<key>'
    aret,       \* the last call of the text service and what it resolved to
    calls,      \* number of calls of the text service so far
    owed,       \* ids of the expandable items pressed and not toggled since
    staleTimers,  \* pending debounce timers of earlier renders, oldest first
    validRefs,  \* the references the text server has
    navCalls,   \* the calls of the navigation service so far, in order
    inflight    \* the BookmarkService calls that run side by side

tocVars == <<indexData, ret, tocItems, effect, timer, navLog, pressed, presses,
             toggled, prev, owed, staleTimers>>

serviceVars == <<bookmarksJson, bret, ops>>

apiVars == <<textCache, aret, calls>>

navVars == <<validRefs, navCalls>>

overlapVars == <<inflight>>

vars == <<indexData, ret, tocItems, effect, timer, navLog, pressed, presses,
          toggled, prev, now, bookmarksJson, bret, ops, textCache, aret, calls,
          owed, staleTimers, validRefs, navCalls, inflight>>

\* no BookmarkService call yet
NoCall ==
    [op |-> "none", arg |-> "", readFailed |-> FALSE, before |-> None,
     status |-> "none", value |-> None, error |-> ""]

\* the component before its first effect
TocIdle ==
    /\ ret = [status |-> "none", builder |-> "none", items |-> <<>>]
    /\ tocItems = <<>>
    /\ effect = "pending"
    /\ timer = None
    /\ navLog = <<>>
    /\ pressed = None
    /\ presses = 0
    /\ toggled = <<>>
    /\ prev = <<>>
    /\ owed = {}
    /\ staleTimers = <<>>

\* nothing stored, no service call made
ServiceIdle ==
    /\ bookmarksJson = None
    /\ bret = NoCall
    /\ ops = 0

ApiIdle ==
    /\ aret = [fn |-> "none"]
    /\ calls = 0

\* no navigation call made
NavIdle ==
    /\ validRefs = {}
    /\ navCalls = <<>>

\* the two callers of the bookmark service
Callers == {"first", "second"}

\* a caller that has called nothing; pc is the await the call stands at
NotCalling ==
    [op |-> "none", pc |-> "idle", bookmark |-> None, bookmarkId |-> "",
     readFailed |-> FALSE, updatedBookmarks |-> <<>>, newBookmark |-> None,
     status |-> "none", error |-> ""]

\* no caller
OverlapIdle == inflight = <<>>

Init ==
    /\ indexData \in Docs
    /\ TocIdle
    /\ now = 0
    /\ ServiceIdle
    /\ textCache = [k \in CacheKeys |-> None]
    /\ ApiIdle
    /\ NavIdle
    /\ OverlapIdle

\* a call generateHierarchicalTOC(indexData) on any input
Normalize ==
    /\ ret.status = "none"
    /\ LET r == generateHierarchicalTOC(indexData)
       IN  ret' = [status |-> IF r.threw THEN "threw" ELSE "returned",
                   builder |-> SelectedBuilder(indexData),
                   items |-> r.items]
    /\ UNCHANGED <<indexData, tocItems, effect, timer, navLog, pressed, presses,
                   toggled, prev, owed, staleTimers>>
    /\ UNCHANGED <<now, serviceVars, apiVars, navVars, overlapVars>>

\* useEffect(() => { if (indexData) setTocItems(generateHierarchicalTOC(indexData)) })
UseEffect ==
    /\ effect = "pending"
    /\ IF ~Truthy(indexData)
       THEN effect' = "skipped" /\ UNCHANGED tocItems
       ELSE LET r == generateHierarchicalTOC(indexData)
            IN  IF r.threw
                THEN effect' = "crashed" /\ UNCHANGED tocItems
                ELSE effect' = "done" /\ tocItems' = r.items
    /\ UNCHANGED <<indexData, ret, timer, navLog, pressed, presses, toggled, prev,
                   owed, staleTimers>>
    /\ UNCHANGED <<now, serviceVars, apiVars, navVars, overlapVars>>

\* handleSectionPress(item) for one of the given items
HandleSectionPressOf(candidates) ==
    /\ effect = "done"
    /\ presses < MaxPresses
    /\ \E item \in candidates, hasCallback \in BOOLEAN :
        /\ pressed' = Some(item)
        /\ timer' = IF PressToggles(item) THEN Some(item.id) ELSE timer
        /\ navLog' = IF PressNavigates(item)
                     THEN Append(navLog, Navigation(item, hasCallback))
                     ELSE navLog
        /\ owed' = IF PressToggles(item) THEN owed \cup {item.id} ELSE owed
    /\ presses' = presses + 1
    /\ UNCHANGED <<indexData, ret, tocItems, effect, toggled, prev, staleTimers>>
    /\ UNCHANGED <<now, serviceVars, apiVars, navVars, overlapVars>>

\* handleSectionPress(item) for an item on screen
HandleSectionPress == HandleSectionPressOf(Rendered(tocItems))

\* handleSectionPress(item) for any expandable item on screen
HandleExpandablePress == HandleSectionPressOf(Expandable(tocItems))

\* the debounce timer fires: _toggleExpansion(itemId); timers of one delay
\* fire in the order they were set
TimerFires ==
    /\ timer # None
    /\ staleTimers = <<>>
    /\ tocItems' = updateItem(tocItems, timer[1])
    /\ timer' = None
    /\ owed' = owed \ {timer[1]}
    /\ UNCHANGED <<indexData, ret, effect, navLog, pressed, presses, toggled, prev,
                   staleTimers>>
    /\ UNCHANGED <<now, serviceVars, apiVars, navVars, overlapVars>>

\* the component renders again for a reason of its own (query state, theme,
\* props): the body runs debounce(_toggleExpansion, 200) anew, so the next
\* press finds a fresh closure and the pending timer is out of its reach
Rerender ==
    /\ timer # None
    /\ staleTimers' = Append(staleTimers, timer[1])
    /\ timer' = None
    /\ UNCHANGED <<indexData, ret, tocItems, effect, navLog, pressed, presses,
                   toggled, prev, owed>>
    /\ UNCHANGED <<now, serviceVars, apiVars, navVars, overlapVars>>

\* the oldest timer of an earlier render fires: _toggleExpansion(itemId);
\* setTocItems renders the component again
StaleTimerFires ==
    /\ staleTimers # <<>>
    /\ tocItems' = updateItem(tocItems, Head(staleTimers))
    /\ owed' = owed \ {Head(staleTimers)}
    /\ staleTimers' = IF timer = None THEN Tail(staleTimers)
                      ELSE Append(Tail(staleTimers), timer[1])
    /\ timer' = None
    /\ UNCHANGED <<indexData, ret, effect, navLog, pressed, presses, toggled, prev>>
    /\ UNCHANGED <<now, serviceVars, apiVars, navVars, overlapVars>>

\* _toggleExpansion(itemId) applied to the forest with any id
ToggleExpansion ==
    /\ effect = "done"
    /\ Len(toggled) < MaxToggles
    /\ \E itemId \in ToggleIds(tocItems) :
        /\ tocItems' = updateItem(tocItems, itemId)
        /\ toggled' = Append(toggled, itemId)
    /\ prev' = IF prev = <<>> THEN <<tocItems>> ELSE <<tocItems, prev[1]>>
    /\ UNCHANGED <<indexData, ret, effect, timer, navLog, pressed, presses, owed,
                   staleTimers>>
    /\ UNCHANGED <<now, serviceVars, apiVars, navVars, overlapVars>>

\* the mounted component
Next == UseEffect \/ HandleSectionPress \/ TimerFires

Spec == Init /\ [][Next]_vars

\* the mounted component with renders of its own; every timer that is set
\* and not cleared fires
NextDebounce ==
    UseEffect \/ HandleExpandablePress \/ TimerFires \/ Rerender \/ StaleTimerFires

SpecDebounce ==
    Init /\ [][NextDebounce]_vars /\ WF_vars(TimerFires) /\ WF_vars(StaleTimerFires)

\* the normalizer called as a function
NextNormalize == Normalize

SpecNormalize == Init /\ [][NextNormalize]_vars

\* the toggle operation applied to a normalized forest
NextToggle == UseEffect \/ ToggleExpansion

SpecToggle == Init /\ [][NextToggle]_vars

\* a millisecond passes
Tick ==
    /\ now % CACHE_TTL < MaxClock
    /\ now' = now + 1
    /\ UNCHANGED <<tocVars, serviceVars, apiVars, navVars, overlapVars>>

\* the call as it is recorded: r is its outcome
Call(op, arg, readFails, r) ==
    [op |-> op, arg |-> arg, readFailed |-> readFails, before |-> bookmarksJson,
     status |-> r.status, value |-> r.value, error |-> r.error]

\* BookmarkService.getBookmarks(), run to completion
GetBookmarks ==
    /\ ops < MaxOps
    /\ \E readFails \in BOOLEAN :
        LET r == getBookmarks(bookmarksJson, readFails)
        IN  bret' = Call("getBookmarks", "", readFails,
                         IF r.threw THEN Rejected(StorageError, bookmarksJson)
                         ELSE Resolved(r.items, bookmarksJson))
    /\ ops' = ops + 1
    /\ UNCHANGED <<tocVars, now, bookmarksJson, apiVars, navVars, overlapVars>>

\* BookmarkService.saveBookmark(bookmark), run to completion
SaveBookmark ==
    /\ ops < MaxOps
    /\ \E bookmark \in NewBookmarks, readFails \in BOOLEAN, writeFails \in BOOLEAN :
        LET r == saveBookmark(bookmarksJson, bookmark, now, readFails, writeFails)
        IN  /\ bookmarksJson' = r.json
            /\ bret' = Call("saveBookmark", bookmark, readFails, r)
    /\ ops' = ops + 1
    /\ UNCHANGED <<tocVars, now, apiVars, navVars, overlapVars>>

\* BookmarkService.deleteBookmark(bookmarkId), run to completion
DeleteBookmark ==
    /\ ops < MaxOps
    /\ \E bookmarkId \in BookmarkIds, readFails \in BOOLEAN, writeFails \in BOOLEAN :
        LET r == deleteBookmark(bookmarksJson, bookmarkId, readFails, writeFails)
        IN  /\ bookmarksJson' = r.json
            /\ bret' = Call("deleteBookmark", bookmarkId, readFails, r)
    /\ ops' = ops + 1
    /\ UNCHANGED <<tocVars, now, apiVars, navVars, overlapVars>>

\* BookmarkService.isBookmarked(reference), run to completion
IsBookmarked ==
    /\ ops < MaxOps
    /\ \E reference \in References, readFails \in BOOLEAN :
        bret' = Call("isBookmarked", reference, readFails,
                     isBookmarked(bookmarksJson, reference, readFails))
    /\ ops' = ops + 1
    /\ UNCHANGED <<tocVars, now, bookmarksJson, apiVars, navVars, overlapVars>>

\* the bookmark service on its own: no document is loaded
InitBookmarks ==
    /\ indexData = NonObject("undefined")
    /\ TocIdle
    /\ now = 0
    /\ ServiceIdle
    /\ textCache = [k \in CacheKeys |-> None]
    /\ ApiIdle
    /\ NavIdle
    /\ OverlapIdle

NextBookmarks ==
    Tick \/ GetBookmarks \/ SaveBookmark \/ DeleteBookmark \/ IsBookmarked

SpecBookmarks == InitBookmarks /\ [][NextBookmarks]_vars

\* a bookmark saved by an earlier run of the app
StoredBookmark ==
    [textTitle |-> "Test Text", reference |-> "Test.0.1", passage |-> "Test passage",
     id |-> "0", dateCreated |-> IsoString(0)]

\* saveBookmark(bookmark) up to its second await: getBookmarks() has settled,
\* the duplicate check is made and AsyncStorage.setItem is called with the
\* list that was read and the new bookmark
SaveBookmarkReads(c) ==
    /\ inflight[c].pc = "idle"
    /\ \E bookmark \in NewBookmarks, readFails \in BOOLEAN :
        LET existingBookmarks == getBookmarks(bookmarksJson, readFails).items
            newBookmark ==
                [textTitle |-> bookmark.textTitle, reference |-> bookmark.reference,
                 passage |-> bookmark.passage, id |-> IntToStr(now),
                 dateCreated |-> DateValue(now)]
            call == [NotCalling EXCEPT !.op = "saveBookmark",
                                       !.bookmark = Some(bookmark),
                                       !.readFailed = readFails]
        IN  inflight' = [inflight EXCEPT ![c] =
                IF \E i \in 1..Len(existingBookmarks) :
                       existingBookmarks[i].reference = bookmark.reference
                THEN [call EXCEPT !.pc = "done", !.status = "rejected",
                                  !.error = AlreadyExists]
                ELSE [call EXCEPT !.pc = "setItem",
                                  !.updatedBookmarks =
                                      Append(existingBookmarks, newBookmark),
                                  !.newBookmark = Some(newBookmark)]]
    /\ UNCHANGED <<tocVars, now, serviceVars, apiVars, navVars>>

\* deleteBookmark(bookmarkId) up to its second await: getBookmarks() has
\* settled and AsyncStorage.setItem is called with the filtered list
DeleteBookmarkReads(c) ==
    /\ inflight[c].pc = "idle"
    /\ \E bookmarkId \in BookmarkIds, readFails \in BOOLEAN :
        LET existingBookmarks == getBookmarks(bookmarksJson, readFails).items
        IN  inflight' = [inflight EXCEPT ![c] =
                [NotCalling EXCEPT !.op = "deleteBookmark",
                                   !.bookmarkId = bookmarkId,
                                   !.readFailed = readFails,
                                   !.pc = "setItem",
                                   !.updatedBookmarks =
                                       WithoutId(existingBookmarks, bookmarkId)]]
    /\ UNCHANGED <<tocVars, now, serviceVars, apiVars, navVars>>

\* AsyncStorage.setItem of caller c settles and the call returns or throws
SetItemSettles(c) ==
    /\ inflight[c].pc = "setItem"
    /\ \E writeFails \in BOOLEAN :
        IF writeFails
        THEN /\ inflight' = [inflight EXCEPT ![c].pc = "done",
                                             ![c].status = "rejected",
                                             ![c].error = StorageError]
             /\ UNCHANGED bookmarksJson
        ELSE /\ inflight' = [inflight EXCEPT ![c].pc = "done",
                                             ![c].status = "resolved"]
             /\ bookmarksJson' = Some(Stringify(inflight[c].updatedBookmarks))
    /\ UNCHANGED <<tocVars, now, bret, ops, apiVars, navVars>>

\* two callers of the bookmark service whose calls may overlap, on a store
\* that is empty or holds a bookmark
InitOverlap ==
    /\ indexData = NonObject("undefined")
    /\ TocIdle
    /\ now = 1
    /\ bookmarksJson \in {None, Some(<<StoredBookmark>>)}
    /\ bret = NoCall
    /\ ops = 0
    /\ textCache = [k \in CacheKeys |-> None]
    /\ ApiIdle
    /\ NavIdle
    /\ inflight = [c \in Callers |-> NotCalling]

NextOverlap ==
    \/ Tick
    \/ \E c \in Callers : SaveBookmarkReads(c)
    \/ \E c \in Callers : DeleteBookmarkReads(c)
    \/ \E c \in Callers : SetItemSettles(c)

SpecOverlap == InitOverlap /\ [][NextOverlap]_vars

\* getText(ref, options), run to completion
GetText ==
    /\ calls < MaxCalls
    /\ \E c \in TextCalls :
        \E env \in Environments(c[1]) :
            LET ref == c[1]
                options == c[2]
                r == getText(ref, options, textCache, now, env)
            IN  /\ textCache' = r.cache
                /\ aret' = [fn |-> "getText", arg |-> ref, options |-> options,
                            url |-> IF r.path = "cached" THEN None
                                    ELSE Some(TextUrl(ref, options)),
                            fetch |-> IF r.path = "cached" THEN None ELSE Some(env.fetch),
                            path |-> r.path, status |-> "resolved", value |-> r.value]
    /\ calls' = calls + 1
    /\ UNCHANGED <<tocVars, now, serviceVars, navVars, overlapVars>>

\* getIndex(title), run to completion
GetIndex ==
    /\ calls < MaxCalls
    /\ \E title \in IndexTitles :
        \E env \in IndexEnvironments(title) :
            LET r == getIndex(title, env)
            IN  aret' = [fn |-> "getIndex", arg |-> title, options |-> O0,
                         url |-> Some(IndexUrl(title)), fetch |-> Some(env.fetch),
                         path |-> r.path, status |-> "resolved", value |-> r.value]
    /\ calls' = calls + 1
    /\ UNCHANGED <<tocVars, now, serviceVars, textCache, navVars, overlapVars>>

\* the text service on its own: the app starts with the cache a previous run
\* left, at once or after the time to live of its entries
InitApi ==
    /\ indexData = NonObject("undefined")
    /\ TocIdle
    /\ now \in {0, CACHE_TTL}
    /\ ServiceIdle
    /\ textCache \in StoredCaches
    /\ ApiIdle
    /\ NavIdle
    /\ OverlapIdle

NextApi == Tick \/ GetText \/ GetIndex

SpecApi == InitApi /\ [][NextApi]_vars

\* one navigation call as it is recorded: r is its result
NavCall(fn, currentRef, r) ==
    [fn |-> fn, arg |-> currentRef, value |-> r.value, probes |-> r.probes]

\* the references of the next call: any at first, then the reference the
\* reader was led to by the last call
AskedRefs ==
    IF navCalls = <<>> THEN NavRefs
    ELSE IF navCalls[Len(navCalls)].value = None THEN {}
    ELSE {navCalls[Len(navCalls)].value}

\* one way of transport for each reference that may be probed
TransportsFor(candidates) == [1..Len(candidates) -> NavTransports]

\* generateNextReference(currentRef), run to completion
GenerateNextReference ==
    /\ Len(navCalls) < MaxNavCalls
    /\ \E currentRef \in AskedRefs :
        \E transports \in TransportsFor(IF currentRef = None THEN <<>>
                                        ELSE NextCandidates(currentRef[1])) :
            navCalls' = Append(navCalls,
                NavCall("next", currentRef,
                        generateNextReference(currentRef, validRefs, transports)))
    /\ UNCHANGED <<tocVars, now, serviceVars, apiVars, validRefs, overlapVars>>

\* generatePreviousReference(currentRef), run to completion
GeneratePreviousReference ==
    /\ Len(navCalls) < MaxNavCalls
    /\ \E currentRef \in AskedRefs :
        \E transports \in TransportsFor(IF currentRef = None THEN <<>>
                                        ELSE PreviousCandidates(currentRef[1])) :
            navCalls' = Append(navCalls,
                NavCall("previous", currentRef,
                        generatePreviousReference(currentRef, validRefs, transports)))
    /\ UNCHANGED <<tocVars, now, serviceVars, apiVars, validRefs, overlapVars>>

\* the navigation service on its own, against a server with any of the
\* references
InitNav ==
    /\ indexData = NonObject("undefined")
    /\ TocIdle
    /\ now = 0
    /\ ServiceIdle
    /\ textCache = [k \in CacheKeys |-> None]
    /\ ApiIdle
    /\ validRefs \in SUBSET ServerRefs
    /\ navCalls = <<>>
    /\ OverlapIdle

NextNav == GenerateNextReference \/ GeneratePreviousReference

SpecNav == InitNav /\ [][NextNav]_vars

\* ============================================================== properties
HasWs(s) == \E i \in 1..Len(s) : IsWs(SubSeq(s, i, i))

SchemaNodesOf(doc) ==
    IF doc.schema # None /\ doc.schema[1].nodes # None THEN doc.schema[1].nodes[1]
    ELSE <<>>

\* C1: in every forest the normalizer returns, an item is collapsible exactly
\* when its list of children is non-empty.
C1_CollapsibleIffChildren ==
    ret.status = "returned" =>
        LET ns == Nodes(ret.items)
        IN  \A i \in 1..Len(ns) : ns[i].isCollapsible <=> Len(ns[i].children) > 0

\* C2: the ids of all items of a returned forest are pairwise distinct.
C2_IdsDistinct ==
    ret.status = "returned" =>
        LET ns == Nodes(ret.items)
        IN  Cardinality({ ns[i].id : i \in 1..Len(ns) }) = Len(ns)

\* C3: a call with an object-shaped document never throws.
C3_ObjectNeverThrows ==
    (indexData.kind = "object" /\ ret.status # "none") => ret.status = "returned"

ExpectedBuilder(doc) ==
    IF doc.title \in {Some("Likutei Halakhot"), Some("Likutei_Halakhot")} THEN "likutei"
    ELSE IF doc.altsTopicNodes # None THEN "topic"
    ELSE IF doc.schema # None /\ doc.schema[1].nodes # None THEN "schema"
    ELSE IF doc.schema # None /\ doc.schema[1].nodeType = Some("JaggedArrayNode")
    THEN "simple"
    ELSE "none"

BuilderResult(b, doc) ==
    IF b = "likutei" THEN generateLikuteiHalakhotTOC(doc)
    ELSE IF b = "topic" THEN generateTopicBasedTOC(doc)
    ELSE IF b = "schema" THEN generateSchemaBasedTOC(doc)
    ELSE IF b = "simple" THEN generateSimpleTOC(doc)
    ELSE Returned(<<>>)

\* C5: the call hands the document to exactly the first builder that matches
\* in the order allow-listed title, topic structure, schema node list, flat
\* schema, and returns the empty list when none matches.
C5_DispatchOrder ==
    ret.status # "none" =>
        /\ ret.builder = ExpectedBuilder(indexData)
        /\ ret.status = (IF BuilderResult(ExpectedBuilder(indexData), indexData).threw
                         THEN "threw" ELSE "returned")
        /\ ret.items = BuilderResult(ExpectedBuilder(indexData), indexData).items

C5_Witness ==
    /\ ret.status = "returned"
    /\ ret.builder = "topic"
    /\ indexData.altsTopicNodes # None
    /\ indexData.schema # None
    /\ indexData.schema[1].nodes # None
    /\ ret.items # <<>>

\* C6: in the compound-legal builder a top-level node that lacks a title, or
\* has a child that lacks one, does not keep its well-formed siblings out of
\* the result: every item a well-formed sibling produces is in the forest.
C6_SiblingsSurvive ==
    (ret.status # "none" /\ ret.builder = "likutei") =>
        \A i \in 1..Len(SchemaNodesOf(indexData)) :
            ~LHNodeThrows(SchemaNodesOf(indexData)[i]) =>
                \A k \in 1..Len(LHNodeItems(OrStr(indexData.title, ""),
                                            SchemaNodesOf(indexData)[i], i - 1)) :
                    \E m \in 1..Len(ret.items) :
                        ret.items[m] = LHNodeItems(OrStr(indexData.title, ""),
                                                   SchemaNodesOf(indexData)[i], i - 1)[k]

\* the references the claim expects of the compound-legal children, in order
ExpectedLegalRefs(doc) ==
    Flatten([i \in 1..Len(SchemaNodesOf(doc)) |->
        LET P == SchemaNodesOf(doc)[i]
        IN  IF IsAuthorsIntro(P) \/ P.nodes = None THEN <<>>
            ELSE [j \in 1..Len(P.nodes[1]) |->
                    ReplaceWs(OrStr(doc.title, "")) \o ",_" \o ReplaceWs(P.title[1])
                        \o ",_" \o ReplaceWs(P.nodes[1][j].title[1]) \o ".1.1"]])

LevelOneRefs(items) ==
    Flatten([i \in 1..Len(items) |->
        [j \in 1..Len(items[i].children) |-> items[i].children[j].reference]])

\* C10: every child reference of the compound-legal builder is the document
\* title, the parent title and the child title, each with its whitespace runs
\* replaced by '_', joined by ',_' and followed by '.1.1'; it has no whitespace.
C10_LegalReference ==
    (ret.status = "returned" /\ ret.builder = "likutei") =>
        LET refs == LevelOneRefs(ret.items)
        IN  /\ refs = ExpectedLegalRefs(indexData)
            /\ \A j \in 1..Len(refs) : ~HasWs(refs[j])

\* an item without its subtree: every field, and the number of children
Shallow(n) ==
    [id |-> n.id, title |-> n.title, reference |-> n.reference, level |-> n.level,
     type |-> n.type, isCollapsible |-> n.isCollapsible, isExpanded |-> n.isExpanded,
     chapterRange |-> n.chapterRange, childCount |-> Len(n.children)]

\* C7: _toggleExpansion with id X inverts isExpanded on exactly one item, the
\* one whose id is X, and changes no other field, no other item, and not the
\* shape or order of the forest; with an id no item has, nothing changes.
C7_ToggleFrame ==
    toggled # <<>> =>
        LET X == toggled[Len(toggled)]
            b == Nodes(prev[1])
            a == Nodes(tocItems)
        IN  /\ Len(a) = Len(b)
            /\ IF \A i \in 1..Len(b) : b[i].id # X
               THEN tocItems = prev[1]
               ELSE \E k \in 1..Len(b) :
                        /\ b[k].id = X
                        /\ Shallow(a[k]) = [Shallow(b[k]) EXCEPT !.isExpanded = ~@]
                        /\ \A i \in 1..Len(b) : i # k => Shallow(a[i]) = Shallow(b[i])

\* C8: two successive calls of _toggleExpansion with the same id leave the
\* forest equal to what it was before the first of them.
C8_ToggleInvolution ==
    (Len(toggled) >= 2 /\ toggled[Len(toggled)] = toggled[Len(toggled) - 1]) =>
        tocItems = prev[2]

C8_Witness ==
    /\ Len(toggled) >= 2
    /\ toggled[Len(toggled)] = toggled[Len(toggled) - 1]
    /\ toggled[Len(toggled)] # "missing"
    /\ prev[1] # tocItems
    /\ tocItems = prev[2]

\* C9: a press triggers at most one of toggle and navigate: a collapsible item
\* only schedules its toggle, also when it carries a reference; any other item
\* with a non-empty reference only navigates, with exactly that reference; an
\* item with neither does nothing.
C9_PressOneAction ==
    [][presses' # presses =>
        LET item == pressed'[1]
        IN  /\ tocItems' = tocItems
            /\ item.isCollapsible =>
                   (timer' = Some(item.id) /\ navLog' = navLog)
            /\ (~item.isCollapsible /\ item.reference # "") =>
                   /\ timer' = timer
                   /\ Len(navLog') = Len(navLog) + 1
                   /\ SubSeq(navLog', 1, Len(navLog)) = navLog
                   /\ navLog'[Len(navLog')] \in
                         { [via |-> "onSectionPress", arg |-> item.reference],
                           [via |-> "router.push",
                            arg |-> "/text/" \o encodeURIComponent(item.reference)] }
            /\ (~item.isCollapsible /\ item.reference = "") =>
                   (timer' = timer /\ navLog' = navLog)
    ]_vars

C9_Witness ==
    /\ pressed # None
    /\ pressed[1].isCollapsible
    /\ pressed[1].reference # ""
    /\ timer = Some(pressed[1].id)
    /\ navLog = <<>>

\* ---------------------------------------------- topic sections and leaves
\* a raw topic node the builder emits as a part
EmitsPart(node) ==
    /\ node.nodeType = Some("ArrayMapNode") \/ TruthyStr(node.title)
    /\ ~IsTopicIntro(node)
    /\ IsTopicPart(node)

\* the reference lists of the array-type sections under the parts of a topic
\* structure, in document order (a missing list counts as empty)
PartSectionRefs(doc) ==
    Flatten([i \in 1..Len(doc.altsTopicNodes[1]) |->
        LET node == doc.altsTopicNodes[1][i]
        IN  IF EmitsPart(node) /\ node.nodes # None
            THEN Flatten([s \in 1..Len(node.nodes[1]) |->
                    IF node.nodes[1][s].nodeType = Some("ArrayMapNode")
                    THEN << IF node.nodes[1][s].refs = None THEN <<>>
                            ELSE node.nodes[1][s].refs[1] >>
                    ELSE <<>>])
            ELSE <<>>])

\* the emitted sections under the emitted parts, in output order
PartSections(items) ==
    Flatten([i \in 1..Len(items) |->
        IF items[i].type = "part" THEN items[i].children ELSE <<>>])

\* the integer written by the longest all-digit suffix of ref, 0 when the
\* last character is no digit
RECURSIVE Pow10(_)
Pow10(n) == IF n = 0 THEN 1 ELSE 10 * Pow10(n - 1)

TrailingInteger(ref) ==
    LET m == CHOOSE k \in 0..Len(ref) :
                 /\ \A j \in (Len(ref) - k + 1)..Len(ref) : IsDigit(SubSeq(ref, j, j))
                 /\ k < Len(ref) => ~IsDigit(SubSeq(ref, Len(ref) - k, Len(ref) - k))
        D(j) == CHOOSE d \in 0..9 : SubSeq("0123456789", d + 1, d + 1) = SubSeq(ref, j, j)
        Sum[j \in (Len(ref) - m)..Len(ref)] ==
            IF j = Len(ref) - m THEN 0 ELSE 10 * Sum[j - 1] + D(j)
    IN  Sum[Len(ref)]

\* the label the claim gives a reference list of k >= 1 entries
ClaimedRangeLabel(refs) ==
    IF Len(refs) = 1 THEN "Chapter " \o IntToStr(TrailingInteger(refs[1]))
    ELSE "Chapters " \o IntToStr(TrailingInteger(refs[1])) \o "-"
         \o IntToStr(TrailingInteger(refs[Len(refs)]))
         \o " (" \o IntToStr(Len(refs)) \o " chapters)"

\* C11: a section of the topic builder whose reference list has k entries is
\* labelled 'Chapter A' when k = 1 and 'Chapters A-B (k chapters)' whenever
\* k >= 2, A and B being the trailing integers of the first and last entry,
\* also when A = B and when the entries end in no digit.
C11_RangeLabelByCount ==
    (ret.status = "returned" /\ ret.builder = "topic") =>
        LET rs == PartSectionRefs(indexData)
            ss == PartSections(ret.items)
        IN  /\ Len(ss) = Len(rs)
            /\ \A j \in 1..Len(rs) :
                   Len(rs[j]) >= 1 => ss[j].chapterRange = Some(ClaimedRangeLabel(rs[j]))

\* the same label for the lists the code labels by count
C11_DistinctEndsLabelled ==
    (ret.status = "returned" /\ ret.builder = "topic") =>
        LET rs == PartSectionRefs(indexData)
            ss == PartSections(ret.items)
        IN  /\ Len(ss) = Len(rs)
            /\ \A j \in 1..Len(rs) :
                   (Len(rs[j]) = 1 \/ (Len(rs[j]) >= 2 /\ TrailingInteger(rs[j][1])
                                          # TrailingInteger(rs[j][Len(rs[j])]))) =>
                       ss[j].chapterRange = Some(ClaimedRangeLabel(rs[j]))

\* C20: the children of every array-type section under a part are exactly one
\* leaf per entry of its reference list, in list order, each at depth 2,
\* titled 'Chapter N' with N the integer of the trailing digits of the entry
\* (0 when there are none), carrying the entry unchanged as its reference.
C20_SectionLeaves ==
    (ret.status = "returned" /\ ret.builder = "topic") =>
        LET rs == PartSectionRefs(indexData)
            ss == PartSections(ret.items)
        IN  /\ Len(ss) = Len(rs)
            /\ \A j \in 1..Len(rs) :
                   /\ Len(ss[j].children) = Len(rs[j])
                   /\ \A n \in 1..Len(rs[j]) :
                          LET leaf == ss[j].children[n]
                          IN  /\ leaf.level = 2
                              /\ leaf.type = "chapter"
                              /\ leaf.children = <<>>
                              /\ ~leaf.isCollapsible
                              /\ leaf.title = "Chapter "
                                     \o IntToStr(TrailingInteger(rs[j][n]))
                              /\ leaf.reference = rs[j][n]

C20_Witness ==
    /\ ret.status = "returned"
    /\ ret.builder = "topic"
    /\ \E j \in 1..Len(PartSections(ret.items)) :
           LET cs == PartSections(ret.items)[j].children
           IN  /\ Len(cs) = 3
               /\ cs[1].title = "Chapter 0" /\ cs[1].reference = "X, Preface"
               /\ cs[2].title = "Chapter 17" /\ cs[2].reference = "X2.17"

\* ------------------------------------------------------------ flat builder
\* C12: for a flat document with unit label L, title T and declared total N
\* the result is one container 'All Ls' with empty reference whose children
\* are exactly the N leaves 'L n' with reference 'T.n', n = 1..N in ascending
\* order, and whose range label is 'Ls 1-N'.
C12_FlatTotalOfDocument ==
    (ret.status = "returned" /\ ret.builder = "simple" /\ indexData.lengths # None) =>
        LET L == indexData.schema[1].sectionNames[1][1]
            T == indexData.title[1]
            N == indexData.lengths[1][1]
        IN  /\ Len(ret.items) = 1
            /\ ret.items[1].title = "All " \o L \o "s"
            /\ ret.items[1].reference = ""
            /\ Len(ret.items[1].children) = N
            /\ \A n \in 1..Len(ret.items[1].children) :
                   /\ ret.items[1].children[n].title = L \o " " \o IntToStr(n)
                   /\ ret.items[1].children[n].reference = T \o "." \o IntToStr(n)
                   /\ ret.items[1].children[n].children = <<>>
            /\ ret.items[1].chapterRange = Some(L \o "s 1-" \o IntToStr(N))

\* ---------------------------------------------------------- schema builder
\* the well-known primary unit label
PrimaryUnit == "Torah"

\* an array-type schema node that is a main section whose section names
\* indicate the primary unit label
IsNumberedSection(node) ==
    /\ node.nodeType = Some("JaggedArrayNode")
    /\ ~(node.title = Some("Introduction") \/ node.key = Some("Introduction"))
    /\ node.default \/ (node.depth # None /\ node.depth[1] >= 2 /\ node.sectionNames # None)
    /\ node.sectionNames # None
    /\ \E k \in 1..Len(node.sectionNames[1]) : node.sectionNames[1][k] = PrimaryUnit

\* C13: the container of such a node has exactly the children n = 1..total in
\* ascending order, each titled 'U n' with reference '<title>.n', and the
\* range label '<total> Us', U being the label that triggered the synthesis.
C13_NumberedSection ==
    (ret.status = "returned" /\ ret.builder = "schema") =>
        \A i \in 1..Len(SchemaNodesOf(indexData)) :
            IsNumberedSection(SchemaNodesOf(indexData)[i]) =>
                \E m \in 1..Len(ret.items) :
                    /\ ret.items[m].id = "section-" \o IntToStr(i - 1)
                    /\ Len(ret.items[m].children) = TorahTotal
                    /\ \A n \in 1..Len(ret.items[m].children) :
                           /\ ret.items[m].children[n].title
                                  = PrimaryUnit \o " " \o IntToStr(n)
                           /\ ret.items[m].children[n].reference
                                  = OrStr(indexData.title, "") \o "." \o IntToStr(n)
                    /\ ret.items[m].chapterRange
                           = Some(IntToStr(TorahTotal) \o " " \o PrimaryUnit \o "s")

\* the same with the label the code writes, the first section name
C13_FirstSectionName ==
    (ret.status = "returned" /\ ret.builder = "schema") =>
        \A i \in 1..Len(SchemaNodesOf(indexData)) :
            IsNumberedSection(SchemaNodesOf(indexData)[i]) =>
                \E m \in 1..Len(ret.items) :
                    LET U == SchemaNodesOf(indexData)[i].sectionNames[1][1]
                    IN  /\ ret.items[m].id = "section-" \o IntToStr(i - 1)
                        /\ Len(ret.items[m].children) = TorahTotal
                        /\ \A n \in 1..Len(ret.items[m].children) :
                               /\ ret.items[m].children[n].title = U \o " " \o IntToStr(n)
                               /\ ret.items[m].children[n].reference
                                      = OrStr(indexData.title, "") \o "." \o IntToStr(n)
                        /\ ret.items[m].chapterRange
                               = Some(IntToStr(TorahTotal) \o " " \o U \o "s")

\* ------------------------------------------------------- order of the forest
\* the position in its source list that an item's id records (0-based)
SourceIndex(item) == TrailingInteger(item.id)

\* the items of a list come from strictly ascending source positions
Ascending(items) ==
    \A a \in 1..(Len(items) - 1) : SourceIndex(items[a]) < SourceIndex(items[a + 1])

\* the raw top-level nodes a builder iterates
RawNodes(b, doc) ==
    IF b = "topic" THEN doc.altsTopicNodes[1]
    ELSE IF b \in {"likutei", "schema"} THEN SchemaNodesOf(doc)
    ELSE <<>>

RawChildren(node) == IF node.nodes = None THEN <<>> ELSE node.nodes[1]

RawRefs(node) == IF node.refs = None THEN <<>> ELSE node.refs[1]

\* an item shows the title of the raw node, when the raw node has a usable one
ShowsTitleOf(item, node) ==
    (node.title # None /\ Trim(RemoveNewlines(node.title[1])) # "") =>
        item.title \in {node.title[1], Trim(RemoveNewlines(node.title[1]))}

StoredList(json) == IF json = None THEN <<>> ELSE json[1]

\* C15: saveBookmark rejects with 'Bookmark already exists for this passage'
\* when a stored bookmark has the reference of its argument, and then leaves
\* storage unchanged; after any sequence of saveBookmark and deleteBookmark
\* calls, each run to completion, no two stored bookmarks share a reference.
C15_SaveRejectsDuplicate ==
    /\ (bret.op = "saveBookmark"
            /\ \E i \in 1..Len(StoredList(bret.before)) :
                   StoredList(bret.before)[i].reference = bret.arg.reference) =>
           /\ bret.status = "rejected"
           /\ bret.error = "Bookmark already exists for this passage"
           /\ bookmarksJson = bret.before
    /\ \A i, j \in 1..Len(StoredList(bookmarksJson)) :
           i # j => StoredList(bookmarksJson)[i].reference
                        # StoredList(bookmarksJson)[j].reference

\* the second half of C15 alone
C15_ReferencesDistinct ==
    \A i, j \in 1..Len(StoredList(bookmarksJson)) :
        i # j => StoredList(bookmarksJson)[i].reference
                     # StoredList(bookmarksJson)[j].reference

\* C16: a deleteBookmark(id) that resolves has written back the stored list
\* without exactly the bookmarks whose id is the argument: the others remain,
\* unchanged and in their order, and with an id that is not stored the list
\* is what it was.
C16_DeleteRemovesOnlyId ==
    (bret.op = "deleteBookmark" /\ bret.status = "resolved") =>
        LET b == StoredList(bret.before)
            a == StoredList(bookmarksJson)
            kept == { i \in 1..Len(b) : b[i].id # bret.arg }
        IN  /\ Len(a) = Cardinality(kept)
            /\ \A k \in 1..Len(a) :
                   \E i \in kept :
                       /\ a[k] = b[i]
                       /\ Cardinality({ m \in kept : m < i }) = k - 1

\* C17: the read operations never reject: getBookmarks resolves to the empty
\* list when storage has no entry or the read fails; isBookmarked(ref)
\* resolves to true exactly when some stored bookmark has reference ref, and
\* to false when storage is empty or the read fails.
C17_ReadsNeverReject ==
    /\ bret.op = "getBookmarks" =>
           /\ bret.status = "resolved"
           /\ bookmarksJson = bret.before
           /\ (bret.before = None \/ bret.readFailed) => bret.value = Some(<<>>)
    /\ bret.op = "isBookmarked" =>
           /\ bret.status = "resolved"
           /\ bookmarksJson = bret.before
           /\ bret.value =
                  Some(/\ ~bret.readFailed
                       /\ \E i \in 1..Len(StoredList(bret.before)) :
                              StoredList(bret.before)[i].reference = bret.arg)

\* a failed read of a list that holds the reference asked for
C17_Witness ==
    /\ bret.op = "isBookmarked"
    /\ bret.readFailed
    /\ bret.value = Some(FALSE)
    /\ \E i \in 1..Len(StoredList(bret.before)) :
           StoredList(bret.before)[i].reference = bret.arg

\* ------------------------------------------------------------ text service
\* the fetch of the last call ended in a non-OK status
NonOkStatus(f) == ~f.rejects /\ ~f.ok

\* the fetch of the last call brought a body with an error property
ErrorBody(f) ==
    /\ ~f.rejects /\ f.ok /\ ~f.json.rejects
    /\ f.json.data.kind = "object"
    /\ f.json.data.error # None

\* C18: getText never rejects; on a non-OK status, an API-level error body
\* or a network failure it resolves to the fallback whose ref is the
\* requested ref, whose text is ['Text not available'] and whose error is a
\* non-empty message ('Text not found. Please check the reference.' for 404,
\* 'An unexpected error occurred. Please try again.' for a generic failure);
\* on a successful fetch it resolves to the fetched body.
C18_GetTextResolves ==
    aret.fn = "getText" =>
        /\ aret.status = "resolved"
        /\ aret.fetch # None =>
               LET f == aret.fetch[1]
               IN  /\ (NonOkStatus(f) \/ ErrorBody(f) \/ f.rejects) =>
                          /\ aret.value.ref = aret.arg
                          /\ aret.value.text = <<"Text not available">>
                          /\ aret.value.error # ""
                          /\ (NonOkStatus(f) /\ f.status = 404) =>
                                 aret.value.error
                                     = "Text not found. Please check the reference."
                          /\ (f.rejects /\ f.error = Error("Error", "Network error")) =>
                                 aret.value.error
                                     = "An unexpected error occurred. Please try again."
                   /\ Succeeds(f) => aret.value = f.json.data

\* C18 without its last clause: the call resolves, and to the fallback after
\* a failure
C18_FailureFallback ==
    (aret.fn = "getText" /\ aret.fetch # None /\ ~Succeeds(aret.fetch[1])) =>
        /\ aret.status = "resolved"
        /\ aret.value.ref = aret.arg
        /\ aret.value.text = <<"Text not available">>
        /\ aret.value.error # ""

\* C19: getIndex never rejects; on a non-OK status, an API-level error body
\* or a network failure it resolves to the fallback whose title is the
\* requested title, whose schema is an empty object and whose error is set
\* (404 gives 'Text not found. Please check the reference.'); on success it
\* returns the fetched body unchanged.
C19_GetIndexResolves ==
    aret.fn = "getIndex" =>
        LET f == aret.fetch[1]
        IN  /\ aret.status = "resolved"
            /\ (NonOkStatus(f) \/ ErrorBody(f) \/ f.rejects) =>
                   /\ aret.value.title = aret.arg
                   /\ aret.value.schema = [kind |-> "object", properties |-> {}]
                   /\ aret.value.error # ""
                   /\ (NonOkStatus(f) /\ f.status = 404) =>
                          aret.value.error = "Text not found. Please check the reference."
            /\ Succeeds(f) => aret.value = f.json.data

C19_Witness ==
    /\ aret.fn = "getIndex"
    /\ aret.arg = "Invalid_Title"
    /\ NonOkStatus(aret.fetch[1])
    /\ aret.fetch[1].status = 404
    /\ aret.value.title = "Invalid_Title"
    /\ aret.value.error = "Text not found. Please check the reference."

\* ------------------------------------------- compound-legal containers
\* the raw top-level nodes the claim speaks of: not an author's
\* introduction, and carrying a child list
HasChildList(node) == ~IsAuthorsIntro(node) /\ node.nodes # None

\* item is the container of a raw node with n raw children: depth 0, type
\* section, empty reference, n leaves at depth 1, labelled by their number
IsContainerOf(item, n) ==
    /\ item.level = 0
    /\ item.type = "section"
    /\ item.reference = ""
    /\ Len(item.children) = n
    /\ \A j \in 1..Len(item.children) :
          /\ item.children[j].level = 1
          /\ item.children[j].children = <<>>
          /\ ~item.children[j].isCollapsible
    /\ item.chapterRange = Some(IntToStr(Len(item.children)) \o " subsections")

\* C21: in the compound-legal builder every top-level node that is not an
\* author's introduction and has a child list becomes a depth-0 section
\* container with empty reference, whose children are leaves at depth 1, one
\* per raw child, and whose range label is 'N subsections' with N the number
\* of children emitted under it.
C21_LegalContainers ==
    (ret.status # "none" /\ ret.builder = "likutei") =>
        \A i \in 1..Len(SchemaNodesOf(indexData)) :
            HasChildList(SchemaNodesOf(indexData)[i]) =>
                \E m \in 1..Len(ret.items) :
                    /\ ret.items[m].id = "section-" \o IntToStr(i - 1)
                    /\ IsContainerOf(ret.items[m],
                                     Len(SchemaNodesOf(indexData)[i].nodes[1]))

\* the same for the calls that return: the label always counts the children
C21_ReturnedContainers ==
    (ret.status = "returned" /\ ret.builder = "likutei") =>
        \A i \in 1..Len(SchemaNodesOf(indexData)) :
            HasChildList(SchemaNodesOf(indexData)[i]) =>
                \E m \in 1..Len(ret.items) :
                    /\ ret.items[m].id = "section-" \o IntToStr(i - 1)
                    /\ IsContainerOf(ret.items[m],
                                     Len(SchemaNodesOf(indexData)[i].nodes[1]))

\* ------------------------------------------------------- text navigation
\* C22: every non-null reference generateNextReference or
\* generatePreviousReference returns was confirmed by a successful
\* isValidReference probe during that call, and when no probed candidate is
\* valid the result is null.
C22_ReturnedIsProbed ==
    \A i \in 1..Len(navCalls) :
        LET c == navCalls[i]
        IN  /\ c.value # None =>
                  \E k \in 1..Len(c.probes) :
                      c.probes[k].ref = c.value[1] /\ c.probes[k].ok
            /\ (\A k \in 1..Len(c.probes) : ~c.probes[k].ok) => c.value = None

\* the same below the book level, where every candidate is probed
C22_ProbedBelowBook ==
    \A i \in 1..Len(navCalls) :
        LET c == navCalls[i]
        IN  (c.arg # None /\ Len(SplitDot(c.arg[1])) > 1) =>
                /\ c.value # None =>
                      /\ c.probes # <<>>
                      /\ c.probes[Len(c.probes)].ref = c.value[1]
                      /\ c.probes[Len(c.probes)].ok
                /\ (\A k \in 1..Len(c.probes) : ~c.probes[k].ok) => c.value = None

\* every probe of the call was answered by the server
Answered(c) == \A k \in 1..Len(c.probes) : c.probes[k].transport \in {"head", "get"}

\* C23: with the server's references fixed and every probe answered, if
\* generateNextReference(r) returns s for a chapter-level or section-level
\* reference r, then generatePreviousReference(s) returns r.
C23_NextThenPrevious ==
    \A i \in 1..(Len(navCalls) - 1) :
        LET c == navCalls[i]
            d == navCalls[i + 1]
        IN  (/\ c.fn = "next" /\ d.fn = "previous"
             /\ c.value # None
             /\ Len(SplitDot(c.arg[1])) \in {2, 3}
             /\ Answered(c) /\ Answered(d)) =>
                d.value = c.arg

\* the same for the references r the server has
C23_ValidNextThenPrevious ==
    \A i \in 1..(Len(navCalls) - 1) :
        LET c == navCalls[i]
            d == navCalls[i + 1]
        IN  (/\ c.fn = "next" /\ d.fn = "previous"
             /\ c.value # None
             /\ Len(SplitDot(c.arg[1])) \in {2, 3}
             /\ c.arg[1] \in validRefs
             /\ Answered(c) /\ Answered(d)) =>
                d.value = c.arg

\* ------------------------------------------------------ debounced toggle
\* ids of the top-level section containers
SectionIds == { "section-" \o IntToStr(i) : i \in 0..(MaxTopNodes - 1) }

\* C24: no toggle is lost: every press on an expandable node is eventually
\* followed by the inversion of that node's isExpanded flag, for every
\* timing of presses, also when two presses on different expandable nodes
\* are less than the debounce delay apart.
C24_NoToggleLost ==
    \A id \in SectionIds : (id \in owed) ~> (id \notin owed)

\* --------------------------------------------- overlapping bookmark calls
\* both callers have called and both calls resolved
BothResolved ==
    /\ inflight # <<>>
    /\ \A c \in Callers : inflight[c].pc = "done" /\ inflight[c].status = "resolved"

\* the two calls are a save with a save or a save with a delete, and they
\* concern different bookmarks: two references, or a saved bookmark and the
\* id of another
DistinctBookmarks ==
    \E c, d \in Callers :
        /\ c # d
        /\ inflight[c].op = "saveBookmark"
        /\ \/ /\ inflight[d].op = "saveBookmark"
              /\ inflight[d].bookmark[1].reference # inflight[c].bookmark[1].reference
           \/ /\ inflight[d].op = "deleteBookmark"
              /\ inflight[d].bookmarkId # inflight[c].newBookmark[1].id

\* what storage holds once both effects are in it
BothEffectsStored ==
    LET stored == StoredList(bookmarksJson)
    IN  /\ \A c \in Callers :
               inflight[c].op = "saveBookmark" =>
                   \E i \in 1..Len(stored) :
                       /\ stored[i].reference = inflight[c].bookmark[1].reference
                       /\ stored[i].id = inflight[c].newBookmark[1].id
        /\ \A c \in Callers :
               inflight[c].op = "deleteBookmark" =>
                   \A i \in 1..Len(stored) : stored[i].id # inflight[c].bookmarkId
        /\ \A i, j \in 1..Len(stored) :
               i # j => stored[i].reference # stored[j].reference

\* C25: no update is lost: for every interleaving of two BookmarkService
\* calls on different bookmarks (saveBookmark with saveBookmark, or
\* saveBookmark with deleteBookmark), once both have resolved every saved
\* bookmark that was not deleted is stored, the deleted one is not, and no
\* two stored bookmarks share a reference.
C25_NoLostUpdate ==
    (BothResolved /\ DistinctBookmarks) => BothEffectsStored

\* the same when no read of storage failed
C25_NoLostUpdateReading ==
    (/\ BothResolved /\ DistinctBookmarks
     /\ \A c \in Callers : ~inflight[c].readFailed) => BothEffectsStored

====
